---- MODULE Spec2Model ----
(***************************************************************************)
(* A model of three parts of the MathJax v3 sources:                       *)
(*   - HTMLDocument.findPosition / mathItem       (specification SpecPos)  *)
(*   - HTMLDocument.findMath / updateDocument /                            *)
(*     removeFromDocument           (specifications SpecDoc, SpecRender)  *)
(*   - the braket package: BraketMethods.Braket, BraketMethods.Bar and     *)
(*     BraketItem.checkItem / toMml               (specification SpecTex)  *)
(***************************************************************************)
EXTENDS Integers, Sequences, FiniteSets, TLC

VARIABLES
    \* ---- findPosition / mathItem applied to drawn inputs
    fpNodes,      \* the HTMLNodeArray: a sequence of run-lists of <<node, length>>
    fpItem,       \* the ProtoItem [n, start, end, open, close]
    fpPc,         \* "init" | "findPosition" | "mathItem"
    fpThrew,      \* TRUE when the call raised (nodes[N] is undefined)
    fpStart,      \* the Location findPosition returned for item.start
    fpEnd         \* the Location findPosition returned for item.end

fpVars == <<fpNodes, fpItem, fpPc, fpThrew, fpStart, fpEnd>>

VARIABLES
    \* ---- the HTMLDocument
    inputJax,     \* this.inputJax: the processStrings flag of each input jax
    math,         \* this.math: the list of HTMLMathItems
    processed,    \* this.processed: [findMath, updateDocument]
    head,         \* the <style> elements of the document head
    sheetId,      \* the id of outputJax.styleSheet(), "null" when there is none
    \* ---- the findMath call in progress
    pass,         \* how the last findMath call ended: "none" (no call yet),
                  \* "running", "done", "threw", "skipped" (already searched)
    elems,        \* the containers adaptor.getElements returned
    ci,           \* position in elems of the container being searched
    ji,           \* position in inputJax of the jax to ask next
    strings,      \* 0 (null) or the position in elems whose strings were extracted
    \* ---- observation
    callLog,      \* the calls to domStrings.find and jax.findMath of the last pass
    listSorted,   \* the jax asked last reported its items in document order
    sinceRemove   \* [findMath, update]: the removeFromDocument calls (counted
                  \* up to 2) since the last findMath / updateDocument call;
                  \* [updated]: the updateDocument calls (counted up to 2)
                  \* since the last removeFromDocument call

docVars == <<inputJax, math, processed, head, sheetId, pass, elems, ci, ji,
             strings, callLog, listSorted, sinceRemove>>

VARIABLES
    \* ---- the TeX parser with the braket package
    texString,    \* parser.string: the input, a sequence of characters and macros
    texBarmax,    \* the barmax the macro table passes to BraketMethods.Braket
    texI,         \* parser.i: the number of units read
    texStack,     \* parser.stack: the stack items, bottom first
    texStatus,    \* "parsing" | "done" | "error"
    texError,     \* the error raised: [id, kind]
    texTrace      \* what the handler that ran last did, in order

texVars == <<texString, texBarmax, texI, texStack, texStatus, texError, texTrace>>

vars == <<fpVars, docVars, texVars>>

\* what the steps of one part of the model leave alone
notFpVars == <<docVars, texVars>>
notDocVars == <<fpVars, texVars>>
notTexVars == <<fpVars, docVars>>

(***************************************************************************)
(* Bounds of the model.                                                    *)
(***************************************************************************)
MaxRuns == 2        \* text nodes (runs) in one run-list
MaxRunLen == 2      \* text length of one run
MaxSpan == 1        \* item.end - item.start of a drawn ProtoItem
MaxContainers == 2  \* containers of one findMath call
MaxJax == 2         \* input jaxes of the document
MaxProtos == 2      \* items one jax.findMath call reports
MaxMath == 2        \* math items findMath may collect in the list
MaxHead == 2        \* <style> elements in the document head
MaxInput == 5       \* units (characters and macros) of a drawn TeX input
MaxBarmax == 2      \* the largest barmax of the macro table

(***************************************************************************)
(* HTMLDocument.findPosition                                               *)
(***************************************************************************)
\* the null node of the Location returned when the runs are exhausted
NullNode == 0

Location(node, n, delim) == [node |-> node, n |-> n, delim |-> delim]

\* the total length of a run-list: the length of the string it was cut from
RECURSIVE RunSum(_)
RunSum(list) ==
    IF list = <<>> THEN 0 ELSE Head(list)[2] + RunSum(Tail(list))

\* mutant: the remaining offset is not reduced by the run just passed
RECURSIVE ScanRunsNoSubtract(_, _, _)
ScanRunsNoSubtract(list, index, delim) ==
    IF list = <<>>
    THEN Location(NullNode, 0, delim)
    ELSE IF index <= Head(list)[2]
         THEN Location(Head(list)[1], index, delim)
         ELSE ScanRunsNoSubtract(Tail(list), index, delim)

\* mutant: a run is taken only when the offset lies strictly inside it
RECURSIVE ScanRunsStrict(_, _, _)
ScanRunsStrict(list, index, delim) ==
    IF list = <<>>
    THEN Location(NullNode, 0, delim)
    ELSE IF index < Head(list)[2]
         THEN Location(Head(list)[1], index, delim)
         ELSE ScanRunsStrict(Tail(list), index - Head(list)[2], delim)

\* mutant: the fallback keeps the unconsumed offset instead of 0
RECURSIVE ScanRunsKeepIndex(_, _, _)
ScanRunsKeepIndex(list, index, delim) ==
    IF list = <<>>
    THEN Location(NullNode, index, delim)
    ELSE IF index <= Head(list)[2]
         THEN Location(Head(list)[1], index, delim)
         ELSE ScanRunsKeepIndex(Tail(list), index - Head(list)[2], delim)

\* the loop of findPosition over the run-list nodes[N]
RECURSIVE ScanRuns(_, _, _)
ScanRuns(list, index, delim) ==
    IF list = <<>>
    THEN Location(NullNode, 0, delim)
    ELSE LET node == Head(list)[1]
             n == Head(list)[2]
         IN  IF index <= n
             THEN Location(node, index, delim)
             ELSE ScanRuns(Tail(list), index - n, delim)

\* nodes[N] is undefined when N is no index of the array: the for-of raises
findPositionThrows(N, nodes) ==
    ~(N >= 0 /\ N < Len(nodes))

\* N is the 0-based index of the string, as in the source
findPosition(N, index, delim, nodes) ==
    ScanRuns(nodes[N + 1], index, delim)

(***************************************************************************)
(* HTMLDocument.mathItem                                                   *)
(***************************************************************************)
mathItemThrows(item, nodes) ==
    findPositionThrows(item.n, nodes)

\* the HTMLMathItem built from a ProtoItem (math, jax and display are carried
\* over unchanged and are not modelled for the drawn inputs)
mathItem(item, nodes) ==
    [start |-> findPosition(item.n, item.start, item.open, nodes),
     end   |-> findPosition(item.n, item.end, item.close, nodes)]

(***************************************************************************)
(* The inputs findPosition and mathItem are applied to.                    *)
(***************************************************************************)
\* the node of run r of string s (distinct text nodes, in document order)
NodeId(s, r) == 10 * s + r

RunLens == UNION {[1..k -> 0..MaxRunLen] : k \in 0..MaxRuns}

MkRunList(s, lens) == [r \in 1..Len(lens) |-> <<NodeId(s, r), lens[r]>>]

\* arrays of at most two strings; a ProtoItem addresses string 0, 1 or 2
NodeArrays ==
    UNION {{[s \in 1..k |-> MkRunList(s, f[s])] : f \in [1..k -> RunLens]}
           : k \in 0..2}

NoLocation == Location(NullNode, 0, "")

fpIdle ==
    /\ fpNodes = <<>>
    /\ fpItem = [n |-> 0, start |-> 0, end |-> 0, open |-> "$", close |-> "$$"]
    /\ fpPc = "idle"
    /\ fpThrew = FALSE
    /\ fpStart = NoLocation
    /\ fpEnd = NoLocation

InitPos ==
    /\ fpNodes \in NodeArrays
    /\ \E N \in 0..2 :
       \E s \in 0..(RunSum(IF N < Len(fpNodes) THEN fpNodes[N + 1] ELSE <<>>) + 2) :
       \E d \in 0..MaxSpan :
          fpItem = [n |-> N, start |-> s, end |-> s + d, open |-> "$", close |-> "$$"]
    /\ fpPc = "init"
    /\ fpThrew = FALSE
    /\ fpStart = NoLocation
    /\ fpEnd = NoLocation

\* findPosition(item.n, item.start.n, item.open, nodes)
FindPositionCall ==
    /\ fpPc = "init"
    /\ fpPc' = "findPosition"
    /\ IF findPositionThrows(fpItem.n, fpNodes)
       THEN fpThrew' = TRUE /\ fpStart' = fpStart
       ELSE /\ fpThrew' = FALSE
            /\ fpStart' = findPosition(fpItem.n, fpItem.start, fpItem.open, fpNodes)
    /\ UNCHANGED <<fpNodes, fpItem, fpEnd>>
    /\ UNCHANGED notFpVars

\* mathItem(item, jax, nodes)
MathItemCall ==
    /\ fpPc = "init"
    /\ fpPc' = "mathItem"
    /\ IF mathItemThrows(fpItem, fpNodes)
       THEN fpThrew' = TRUE /\ UNCHANGED <<fpStart, fpEnd>>
       ELSE /\ fpThrew' = FALSE
            /\ fpStart' = mathItem(fpItem, fpNodes).start
            /\ fpEnd' = mathItem(fpItem, fpNodes).end
    /\ UNCHANGED <<fpNodes, fpItem>>
    /\ UNCHANGED notFpVars

NextPos ==
    \/ FindPositionCall
    \/ MathItemCall


(***************************************************************************)
(* Properties of findPosition and mathItem (checked under SpecPos).        *)
(***************************************************************************)
\* the run-list the drawn ProtoItem addresses
fpList == fpNodes[fpItem.n + 1]

fpCalled == fpPc # "init" /\ ~findPositionThrows(fpItem.n, fpNodes)

\* the linear offset a Location stands for: the lengths of the runs that
\* precede the run of loc.node, plus loc.n
RECURSIVE LinearOffset(_, _)
LinearOffset(list, loc) ==
    IF list = <<>> THEN loc.n
    ELSE IF Head(list)[1] = loc.node THEN loc.n
    ELSE Head(list)[2] + LinearOffset(Tail(list), loc)

RoundTrips(list, k, loc) ==
    loc.node = NullNode \/ LinearOffset(list, loc) = k

\* C1: for an offset k with 0 <= k <= len(string), findPosition returns the
\* null-node value or a (node, n) whose preceding run lengths plus n give k.
C1_MappingRoundTrip ==
    fpCalled =>
        /\ fpItem.start <= RunSum(fpList)
               => /\ ~fpThrew
                  /\ RoundTrips(fpList, fpItem.start, fpStart)
        /\ (fpPc = "mathItem" /\ fpItem.end <= RunSum(fpList))
               => RoundTrips(fpList, fpItem.end, fpEnd)

\* an offset that lies in the second run of a two-run list was resolved
C1_Witness ==
    /\ fpPc = "findPosition"
    /\ fpItem.n = 1
    /\ Len(fpNodes) = 2
    /\ Len(fpList) = 2
    /\ fpList[1][2] = 1
    /\ fpItem.start = 3
    /\ fpStart = Location(fpList[2][1], 2, "$")

LastRun(list) == list[Len(list)]

FullLength(list, k, loc) ==
    k = RunSum(list) =>
        /\ list # <<>>
        /\ loc.node = LastRun(list)[1]
        /\ loc.n = LastRun(list)[2]

OnePast(list, k, loc, delim) ==
    k = RunSum(list) + 1 => loc = Location(NullNode, 0, delim)

\* C2 as stated: for EVERY run-list the offset equal to the full length
\* resolves to the last run's node with n = that run's length (never the
\* null node), and the offset one past it resolves to the null node.
C2_AsStated ==
    fpCalled =>
        /\ FullLength(fpList, fpItem.start, fpStart)
        /\ OnePast(fpList, fpItem.start, fpStart, fpItem.open)

\* C2 amended: the same for every non-empty run-list whose last run has a
\* non-zero length; the offset one past the full length resolves to the
\* null node for every run-list.
C2_DegenerateOffset ==
    fpCalled =>
        /\ (fpList # <<>> /\ LastRun(fpList)[2] > 0)
               => FullLength(fpList, fpItem.start, fpStart)
        /\ OnePast(fpList, fpItem.start, fpStart, fpItem.open)
        /\ fpPc = "mathItem" =>
               /\ (fpList # <<>> /\ LastRun(fpList)[2] > 0)
                      => FullLength(fpList, fpItem.end, fpEnd)
               /\ OnePast(fpList, fpItem.end, fpEnd, fpItem.close)

\* a match that ends exactly at the end of a two-run string and whose end
\* was resolved to the last run, at that run's length
C2_Witness ==
    /\ fpPc = "mathItem"
    /\ ~fpThrew
    /\ Len(fpList) = 2
    /\ fpList[1][2] > 0
    /\ fpList[2][2] = 2
    /\ fpItem.end = RunSum(fpList)
    /\ fpItem.start < fpItem.end
    /\ fpEnd = Location(fpList[2][1], 2, "$$")

NullLocation(delim) == Location(NullNode, 0, delim)

\* C3: an offset larger than the sum of the run lengths of the addressed
\* string (an empty run-list included) makes findPosition return
\* (node = null, n = 0, the given delimiter) without raising, and mathItem
\* still returns a math item carrying it.
C3_UnresolvableIsValue ==
    fpCalled =>
        /\ fpItem.start > RunSum(fpList)
               => ~fpThrew /\ fpStart = NullLocation(fpItem.open)
        /\ (fpPc = "mathItem" /\ fpItem.end > RunSum(fpList))
               => ~fpThrew /\ fpEnd = NullLocation(fpItem.close)

\* mathItem was applied to a ProtoItem that starts inside a non-empty string
\* and ends past its end
C3_Witness ==
    /\ fpPc = "mathItem"
    /\ ~fpThrew
    /\ fpList # <<>>
    /\ fpItem.start = RunSum(fpList)
    /\ fpItem.end = RunSum(fpList) + 1
    /\ fpStart.node # NullNode
    /\ fpEnd = NullLocation("$$")

(***************************************************************************)
(* The HTMLDocument: math list, processed flags, document head.            *)
(***************************************************************************)
\* AbstractMathDocument.STATE: the ordered typeset-lifecycle states
STATE_UNPROCESSED == 0
STATE_COMPILED == 1
STATE_TYPESET == 2
STATE_INSERTED == 3

\* new HTMLMathItem(math, jax, display, start, end): its Locations and its
\* state (math, jax and display are carried along unchanged)
HTMLMathItem(start, end, st) ==
    [start |-> start, end |-> end, st |-> st]

\* the document-order key of a Location: text nodes are numbered in document
\* order, and the null node sorts before every node
DocKey(loc) == <<loc.node, loc.n>>

KeyLess(a, b) == a[1] < b[1] \/ (a[1] = b[1] /\ a[2] < b[2])

\* MathList.isBefore: document order of the start positions
isBefore(a, b) == KeyLess(DocKey(a.start), DocKey(b.start))

\* MathList.merge: the stable merge of a new list into the sorted list
RECURSIVE merge(_, _)
merge(list, new) ==
    IF new = <<>> THEN list
    ELSE IF list = <<>> THEN new
    ELSE IF isBefore(Head(new), Head(list))
         THEN <<Head(new)>> \o merge(list, Tail(new))
         ELSE <<Head(list)>> \o merge(Tail(list), new)

\* domStrings.find(container): the node array of a container; a container
\* holds one string, cut from one text node of length 1
DomNodes(c) == << << <<NodeId(c, 1), 1>> >> >>

SeqsUpTo(S, k) == UNION {[1..m -> S] : m \in 0..k}

\* what jax.findMath(strings) may report for the strings of container c
StringProtos(c) ==
    {[n |-> 0, start |-> k, end |-> k + 1, open |-> "$", close |-> "$"]
        : k \in 0..(RunSum(DomNodes(c)[1]) + 1)}

\* what jax.findMath(container) may report for container c: items whose
\* start and end name a node of the container
DomProtos(c) ==
    {[start |-> Location(DomNodes(c)[1][r][1], 0, ""),
      end |-> Location(DomNodes(c)[1][r][1], 0, "")]
        : r \in 1..Len(DomNodes(c)[1])}

\* mutant: the math items are pushed onto the list in reverse
StringListReversed(report, nodes) ==
    [i \in 1..Len(report) |->
        HTMLMathItem(mathItem(report[Len(report) + 1 - i], nodes).start,
                     mathItem(report[Len(report) + 1 - i], nodes).end,
                     STATE_UNPROCESSED)]

\* list.push(this.mathItem(math, jax, nodes)) for each reported item
StringList(report, nodes) ==
    [i \in 1..Len(report) |->
        HTMLMathItem(mathItem(report[i], nodes).start,
                     mathItem(report[i], nodes).end, STATE_UNPROCESSED)]

\* list.push(new HTMLMathItem(math.math, jax, math.display, math.start, math.end))
DomList(report) ==
    [i \in 1..Len(report) |->
        HTMLMathItem(report[i].start, report[i].end, STATE_UNPROCESSED)]

\* mutant: strings and nodes are not reset for a new container
ContainerStringsKept(str, j) == str

\* let [strings, nodes] = [null, null] at the start of each container
ContainerStrings(str, j) == IF j = 1 THEN 0 ELSE str

FindCall(pos) == [op |-> "find", pos |-> pos, jax |-> 0, from |-> 0]

\* from: the position of the container whose strings were passed, 0 when the
\* container itself was passed
JaxCall(pos, j, from) == [op |-> "findMath", pos |-> pos, jax |-> j, from |-> from]

\* the Locations are in non-decreasing document order
InOrder(locs) ==
    \A i \in 1..(Len(locs) - 1) : ~KeyLess(DocKey(locs[i + 1]), DocKey(locs[i]))

Sorted(list) == InOrder([i \in 1..Len(list) |-> list[i].start])

\* the containers of a call: distinct containers in any order
ElementLists ==
    {e \in SeqsUpTo(1..MaxContainers, MaxContainers) :
        \A i, j \in 1..Len(e) : i # j => e[i] # e[j]}

\* some (container, jax) pair of the two loops is still to be searched
HasPair == ci <= Len(elems) /\ Len(inputJax) > 0

Running == pass = "running"

\* mutant: findMath searches whether or not it has searched before
AlreadyFoundNever(p) == FALSE

\* the guard of findMath
AlreadyFound(p) == p.findMath

\* findMath(options), up to the first pair of the loops
FindMathCall ==
    /\ ~Running
    /\ sinceRemove' = [sinceRemove EXCEPT !.findMath = 0]
    /\ IF AlreadyFound(processed)
       THEN /\ pass' = "skipped"
            /\ UNCHANGED <<elems, ci, ji, strings, callLog, listSorted>>
       ELSE /\ pass' = "running"
            /\ elems' \in ElementLists
            /\ ci' = 1
            /\ ji' = 1
            /\ strings' = 0
            /\ callLog' = <<>>
            /\ listSorted' = TRUE
    /\ UNCHANGED <<inputJax, math, processed, head, sheetId>>
    /\ UNCHANGED notDocVars

\* one turn of the inner loop: ask jax ji for the math of container ci
FindMathJax ==
    /\ Running
    /\ HasPair
    /\ LET str0 == ContainerStrings(strings, ji)
           byStrings == inputJax[ji]
           extract == byStrings /\ str0 = 0
           str1 == IF extract THEN ci ELSE str0
           log1 == IF extract THEN Append(callLog, FindCall(ci)) ELSE callLog
       IN  /\ strings' = str1
           /\ callLog' = Append(log1, JaxCall(ci, ji, IF byStrings THEN str1 ELSE 0))
           /\ IF byStrings
              THEN \E report \in SeqsUpTo(StringProtos(elems[str1]), MaxProtos) :
                     LET nodes == DomNodes(elems[str1])
                         list == StringList(report, nodes)
                     IN  /\ Len(math) + Len(list) <= MaxMath
                         /\ math' = merge(math, list)
                         /\ listSorted' =
                               InOrder([i \in 1..Len(report) |->
                                           mathItem(report[i], nodes).start])
              ELSE \E report \in SeqsUpTo(DomProtos(elems[ci]), MaxProtos) :
                     LET list == DomList(report)
                     IN  /\ Len(math) + Len(list) <= MaxMath
                         /\ math' = merge(math, list)
                         /\ listSorted' =
                               InOrder([i \in 1..Len(report) |-> report[i].start])
    /\ IF ji < Len(inputJax)
       THEN ji' = ji + 1 /\ ci' = ci
       ELSE ji' = 1 /\ ci' = ci + 1
    /\ UNCHANGED <<inputJax, processed, head, sheetId, pass, elems, sinceRemove>>
    /\ UNCHANGED notDocVars

\* mutant: findMath marks the search as done although a jax raised
FindMathThrowSetsFlag ==
    /\ Running
    /\ HasPair
    /\ LET str0 == ContainerStrings(strings, ji)
           extract == inputJax[ji] /\ str0 = 0
       IN  /\ strings' = IF extract THEN ci ELSE str0
           /\ callLog' = IF extract THEN Append(callLog, FindCall(ci)) ELSE callLog
    /\ pass' = "threw"
    /\ processed' = [processed EXCEPT !.findMath = TRUE]
    /\ UNCHANGED <<inputJax, math, head, sheetId, elems, ci, ji,
                   listSorted, sinceRemove>>
    /\ UNCHANGED notDocVars

\* jax.findMath raises: findMath is left with the flag unset
FindMathThrow ==
    /\ Running
    /\ HasPair
    /\ LET str0 == ContainerStrings(strings, ji)
           extract == inputJax[ji] /\ str0 = 0
       IN  /\ strings' = IF extract THEN ci ELSE str0
           /\ callLog' = IF extract THEN Append(callLog, FindCall(ci)) ELSE callLog
    /\ pass' = "threw"
    /\ UNCHANGED <<inputJax, math, processed, head, sheetId, elems, ci, ji,
                   listSorted, sinceRemove>>
    /\ UNCHANGED notDocVars

\* the loops are over: this.processed.findMath = true
FindMathReturn ==
    /\ Running
    /\ ~HasPair
    /\ processed' = [processed EXCEPT !.findMath = TRUE]
    /\ pass' = "done"
    /\ UNCHANGED <<inputJax, math, head, sheetId, elems, ci, ji, strings,
                   callLog, listSorted, sinceRemove>>
    /\ UNCHANGED notDocVars

\* super.updateDocument(): every math item not yet inserted is inserted
superUpdateDocument(list) ==
    [i \in 1..Len(list) |->
        IF list[i].st < STATE_INSERTED
        THEN [list[i] EXCEPT !.st = STATE_INSERTED]
        ELSE list[i]]

\* mutant: the head is never found to hold the sheet
findSheetNever(hd, id) == 0

\* findSheet(head, id): the position of the first style with that id, or 0
findSheet(hd, id) ==
    IF id # "" /\ \E k \in 1..Len(hd) : hd[k].id = id
    THEN CHOOSE k \in 1..Len(hd) :
            hd[k].id = id /\ \A m \in 1..(k - 1) : hd[m].id # id
    ELSE 0

StyleSheet(id) == [id |-> id, own |-> TRUE]

\* calls are counted up to 2
UpTo2(n) == IF n > 2 THEN 2 ELSE n

\* updateDocument()
updateDocument ==
    /\ ~Running
    /\ sinceRemove' = [sinceRemove EXCEPT !.update = 0, !.updated = UpTo2(@ + 1)]
    /\ IF ~processed.updateDocument
       THEN /\ math' = superUpdateDocument(math)
            /\ IF sheetId # "null"
               THEN LET styles == findSheet(head, sheetId)
                    IN  IF styles # 0
                        THEN head' = [head EXCEPT ![styles] = StyleSheet(sheetId)]
                        ELSE /\ Len(head) < MaxHead
                             /\ head' = Append(head, StyleSheet(sheetId))
               ELSE head' = head
            /\ processed' = [processed EXCEPT !.updateDocument = TRUE]
       ELSE UNCHANGED <<math, head, processed>>
    /\ UNCHANGED <<inputJax, sheetId, pass, elems, ci, ji, strings, callLog,
                   listSorted>>
    /\ UNCHANGED notDocVars

\* mutant: the math items are rolled back whatever the flag says
RemoveGuardAlways(p) == TRUE

\* the guard of removeFromDocument
RemoveGuard(p) == p.updateDocument

\* mutant: every item is set to TYPESET, inserted or not
RollBackAll(list) == [i \in 1..Len(list) |-> [list[i] EXCEPT !.st = STATE_TYPESET]]

\* math.state(STATE.TYPESET, restore) for every item at or past INSERTED
RollBack(list) ==
    [i \in 1..Len(list) |->
        IF list[i].st >= STATE_INSERTED
        THEN [list[i] EXCEPT !.st = STATE_TYPESET]
        ELSE list[i]]

\* removeFromDocument(restore)
removeFromDocument ==
    /\ ~Running
    /\ math' = IF RemoveGuard(processed) THEN RollBack(math) ELSE math
    /\ processed' = [processed EXCEPT !.updateDocument = FALSE]
    /\ sinceRemove' = [findMath |-> UpTo2(sinceRemove.findMath + 1),
                        update |-> UpTo2(sinceRemove.update + 1),
                        updated |-> 0]
    /\ UNCHANGED <<inputJax, head, sheetId, pass, elems, ci, ji, strings,
                   callLog, listSorted>>
    /\ UNCHANGED notDocVars

\* TestMath(text, display): once, a new math item is pushed on the list as it
\* is constructed, unprocessed and with no position in the document
TestMath ==
    /\ ~Running
    /\ IF ~processed.TestMath
       THEN /\ math' = Append(math, HTMLMathItem(NoLocation, NoLocation,
                                                 STATE_UNPROCESSED))
            /\ processed' = [processed EXCEPT !.TestMath = TRUE]
       ELSE UNCHANGED <<math, processed>>
    /\ UNCHANGED <<inputJax, head, sheetId, pass, elems, ci, ji, strings,
                   callLog, listSorted, sinceRemove>>
    /\ UNCHANGED notDocVars

\* compile, typeset or insertion of one math item: its state moves one step up
AdvanceState ==
    /\ ~Running
    /\ \E i \in 1..Len(math) :
          /\ math[i].st < STATE_INSERTED
          /\ math' = [math EXCEPT ![i].st = @ + 1]
    /\ UNCHANGED <<inputJax, processed, head, sheetId, pass, elems, ci, ji,
                   strings, callLog, listSorted, sinceRemove>>
    /\ UNCHANGED notDocVars

DocQuiet ==
    /\ math = <<>>
    /\ processed = [findMath |-> FALSE, updateDocument |-> FALSE, TestMath |-> FALSE]
    /\ pass = "none"
    /\ elems = <<>>
    /\ ci = 1
    /\ ji = 1
    /\ strings = 0
    /\ callLog = <<>>
    /\ listSorted = TRUE
    /\ sinceRemove = [findMath |-> 0, update |-> 0, updated |-> 0]

InitDoc ==
    /\ inputJax \in SeqsUpTo(BOOLEAN, MaxJax)
    /\ head = <<>>
    /\ sheetId = "MJX-styles"
    /\ DocQuiet

\* discovery: the steps of findMath (no step of it reads or writes what
\* updateDocument and removeFromDocument work on, which SpecRender covers)
NextDoc ==
    \/ FindMathCall
    \/ FindMathJax
    \/ FindMathThrow
    \/ FindMathReturn

(***************************************************************************)
(* The MathML nodes the parser builds.                                     *)
(***************************************************************************)
\* the attributes of a node none of whose attributes is set
NoAttrs ==
    [texClass |-> "NONE", stretchy |-> FALSE, braketbar |-> FALSE, fence |-> FALSE,
     symmetric |-> FALSE, open |-> "", close |-> ""]

MmlNode(type, text, attrs, kids) ==
    [type |-> type, text |-> text, attrs |-> attrs, kids |-> kids]

\* U+2225, the double bar
DoubleBar == "U+2225"

\* mutant: the fallback token carries the provenance tag of an accepted bar
PlainBarTagged(c) ==
    MmlNode("mo", c, [NoAttrs EXCEPT !.texClass = "ORD", !.braketbar = TRUE], <<>>)

\* parser.create('token', 'mo', {texClass: TEXCLASS.ORD, stretchy: false}, c)
PlainBar(c) == MmlNode("mo", c, [NoAttrs EXCEPT !.texClass = "ORD"], <<>>)

\* mutant: the bar of a non-stretchy frame loses its provenance tag
TaggedBarUntagged(c) == MmlNode("mo", c, NoAttrs, <<>>)

\* parser.create('token', 'mo', {stretchy: false, braketbar: true}, c)
TaggedBar(c) == MmlNode("mo", c, [NoAttrs EXCEPT !.braketbar = TRUE], <<>>)

\* parser.create('token', 'mo', {stretchy: true, braketbar: true}, c)
StretchyBar(c) ==
    MmlNode("mo", c, [NoAttrs EXCEPT !.stretchy = TRUE, !.braketbar = TRUE], <<>>)

\* parser.create('node', 'TeXAtom', [], {texClass: texClass})
Spacer(texClass) == MmlNode("TeXAtom", "", [NoAttrs EXCEPT !.texClass = texClass], <<>>)

\* the identifier a letter is parsed into
Letter(c) == MmlNode("mi", c, NoAttrs, <<>>)

\* BaseItem.toMml: the only child, or the children in an inferred row
BaseToMml(nodes) ==
    IF Len(nodes) = 1 THEN nodes[1]
    ELSE MmlNode("inferred-mrow", "", NoAttrs, nodes)

\* the nodes an inner content stands for
Content(inner) == IF inner.type = "inferred-mrow" THEN inner.kids ELSE <<inner>>

\* ParseUtil.fenced(configuration, open, inner, close): one fenced group, the
\* stretchy open glyph, the inner content and the stretchy close glyph
Fenced(open, inner, close) ==
    MmlNode("mrow", "",
            [NoAttrs EXCEPT !.open = open, !.close = close, !.texClass = "INNER"],
            <<MmlNode("mo", open,
                      [NoAttrs EXCEPT !.fence = TRUE, !.stretchy = TRUE,
                                      !.symmetric = TRUE, !.texClass = "OPEN"], <<>>),
              inner,
              MmlNode("mo", close,
                      [NoAttrs EXCEPT !.fence = TRUE, !.stretchy = TRUE,
                                      !.symmetric = TRUE, !.texClass = "CLOSE"], <<>>)>>)

(***************************************************************************)
(* Stack items.                                                            *)
(***************************************************************************)
StackItem(kind, barmax, barcount, open, close, stretchy, nodes) ==
    [kind |-> kind, barmax |-> barmax, barcount |-> barcount, open |-> open,
     close |-> close, stretchy |-> stretchy, nodes |-> nodes]

\* the bottom item of every parse
StartItem == StackItem("start", 0, 0, "", "", FALSE, <<>>)

\* the item a '{' pushes
OpenItem == StackItem("open", 0, 0, "", "", FALSE, <<>>)

\* the item a '}' pushes
CloseItem == StackItem("close", 0, 0, "", "", FALSE, <<>>)

\* factory.create('mml', node)
MmlItem(node) == StackItem("mml", 0, 0, "", "", FALSE, <<node>>)

\* itemFactory.create('braket').setProperties({barmax, barcount: 0, open,
\* close, stretchy})
BraketItem(open, close, stretchy, barmax) ==
    StackItem("braket", barmax, 0, open, close, stretchy, <<>>)

\* mutant: the frame synthesizes its inner content without the delimiters
toMmlBare(item) == BaseToMml(item.nodes)

\* BraketItem.toMml
toMml(item) ==
    LET inner == BaseToMml(item.nodes)
        attrs == [NoAttrs EXCEPT !.fence = TRUE, !.stretchy = FALSE,
                                 !.symmetric = TRUE, !.texClass = "OPEN"]
        openNode == MmlNode("mo", item.open, attrs, <<>>)
        closeNode == MmlNode("mo", item.close, attrs, <<>>)
    IN  IF item.stretchy
        THEN Fenced(item.open, inner, item.close)
        ELSE MmlNode("mrow", "",
                     [NoAttrs EXCEPT !.open = item.open, !.close = item.close,
                                     !.texClass = "INNER"],
                     <<openNode, inner, closeNode>>)

\* the answers of checkItem: [items, success] of the source, with the item
\* itself as changed by this.Push
Absorbed(item) == [act |-> "absorbed", item |-> item, items |-> <<>>, error |-> ""]
Pushed(item) == [act |-> "push", item |-> item, items |-> <<>>, error |-> ""]
Replaced(item, items) == [act |-> "replace", item |-> item, items |-> items, error |-> ""]
Raised(item, error) == [act |-> "error", item |-> item, items |-> <<>>, error |-> error]

\* BaseItem.checkItem: a finished subtree is absorbed, a close marker no item
\* takes is an error, an item that opens a frame goes on the stack
BaseCheckItem(top, item) ==
    IF item.kind = "mml"
    THEN Absorbed([top EXCEPT !.nodes = @ \o item.nodes])
    ELSE IF item.kind = "close"
    THEN Raised(top, "UnexpectedCloseContext")
    ELSE Pushed(top)

\* OpenItem.checkItem: a close marker turns the group into one TeXAtom
OpenCheckItem(top, item) ==
    IF item.kind = "close"
    THEN Replaced(top, <<MmlItem(MmlNode("TeXAtom", "", [NoAttrs EXCEPT !.texClass = "ORD"],
                                          <<BaseToMml(top.nodes)>>))>>)
    ELSE BaseCheckItem(top, item)

\* mutant: a close item is kept as a child and the frame stays open
BraketCheckItemStaysOpen(top, item) ==
    IF item.kind \in {"close", "mml"}
    THEN Absorbed([top EXCEPT !.nodes = @ \o item.nodes])
    ELSE BaseCheckItem(top, item)

\* BraketItem.checkItem
BraketCheckItem(top, item) ==
    IF item.kind = "close"
    THEN Replaced(top, <<MmlItem(toMml(top))>>)
    ELSE IF item.kind = "mml"
    THEN Absorbed([top EXCEPT !.nodes = @ \o item.nodes])
    ELSE BaseCheckItem(top, item)

\* the checkItem of the item's class
checkItem(top, item) ==
    IF top.kind = "braket" THEN BraketCheckItem(top, item)
    ELSE IF top.kind = "open" THEN OpenCheckItem(top, item)
    ELSE BaseCheckItem(top, item)

Top(stack) == stack[Len(stack)]

ParserState(stack, i, trace, error) ==
    [stack |-> stack, i |-> i, trace |-> trace, error |-> error]

\* Stack.Push(item): the top item decides what becomes of it
RECURSIVE StackPush(_, _)
StackPush(stack, item) ==
    LET r == checkItem(Top(stack), item)
        below == SubSeq(stack, 1, Len(stack) - 1)
    IN  IF r.act = "error" THEN [stack |-> stack, error |-> r.error]
        ELSE IF r.act = "absorbed"
        THEN [stack |-> Append(below, r.item), error |-> ""]
        ELSE IF r.act = "push"
        THEN [stack |-> Append(stack, item), error |-> ""]
        ELSE StackPush(below, r.items[1])

\* parser.Push(node or item); nothing is pushed once an error was raised
Push(ps, item, event) ==
    IF ps.error # "" THEN ps
    ELSE LET r == StackPush(ps.stack, item)
         IN  ParserState(r.stack, ps.i, Append(ps.trace, event), r.error)

\* parser.GetNext(): the next character, '' at the end of the input
GetNext(string, i) == IF i < Len(string) THEN string[i + 1] ELSE ""

(***************************************************************************)
(* BraketMethods.                                                          *)
(***************************************************************************)
\* mutant: the frame is opened as an ordinary group
BraketAsGroup(ps, name, open, close, stretchy, barmax) ==
    Push(ParserState(ps.stack, ps.i + 1, ps.trace, ps.error), OpenItem, "push braket")

\* BraketMethods.Braket
Braket(ps, name, open, close, stretchy, barmax) ==
    Push(ParserState(ps.stack, ps.i + 1, ps.trace, ps.error),
         BraketItem(open, close, stretchy, barmax), "push braket")

\* top.setProperty('barcount', top.getProperty('barcount') + 1), top being the
\* item at place p of the stack
AddBar(ps, p) ==
    IF ps.error # "" THEN ps
    ELSE ParserState([ps.stack EXCEPT ![p].barcount = @ + 1], ps.i,
                     Append(ps.trace, "barcount + 1"), ps.error)

\* mutant: a bar is counted before the fallback test
BarFallbackNever(top) == top.kind # "braket"

\* mutant: the fallback test lets one bar too many through
BarFallbackLate(top) == top.kind # "braket" \/ top.barcount > top.barmax

\* the test of the fallback path
BarFallback(top) == top.kind # "braket" \/ top.barcount >= top.barmax

\* mutant: the bar is counted before the closing spacer is pushed
BarCountsFirst(ps, name, string) ==
    LET c0 == IF name = "|" THEN "|" ELSE DoubleBar
        p == Len(ps.stack)
        top == Top(ps.stack)
        double == c0 = "|" /\ GetNext(string, ps.i) = "|"
        c == IF double THEN DoubleBar ELSE c0
        ps1 == IF double
               THEN ParserState(ps.stack, ps.i + 1, Append(ps.trace, "i + 1"), ps.error)
               ELSE ps
    IN  IF BarFallback(top)
        THEN Push(ps, MmlItem(PlainBar(c0)), "push plain bar")
        ELSE IF ~top.stretchy
        THEN Push(ps1, MmlItem(TaggedBar(c)), "push tagged bar")
        ELSE Push(Push(Push(AddBar(ps1, p),
                            MmlItem(Spacer("CLOSE")), "push CLOSE spacer"),
                       MmlItem(StretchyBar(c)), "push stretchy bar"),
                  MmlItem(Spacer("OPEN")), "push OPEN spacer")

\* mutant: inside a group the bar is counted by the braket frame around it
BarEnclosing(ps, name, string) ==
    LET c0 == IF name = "|" THEN "|" ELSE DoubleBar
        p == Len(ps.stack)
        top == Top(ps.stack)
        double == c0 = "|" /\ GetNext(string, ps.i) = "|"
        c == IF double THEN DoubleBar ELSE c0
        ps1 == IF double
               THEN ParserState(ps.stack, ps.i + 1, Append(ps.trace, "i + 1"), ps.error)
               ELSE ps
    IN  IF top.kind = "open" /\ p > 1 /\ ~BarFallback(ps.stack[IF p > 1 THEN p - 1 ELSE 1])
        THEN Push(AddBar(ps, p - 1), MmlItem(PlainBar(c0)), "push plain bar")
        ELSE IF BarFallback(top)
        THEN Push(ps, MmlItem(PlainBar(c0)), "push plain bar")
        ELSE IF ~top.stretchy
        THEN Push(ps1, MmlItem(TaggedBar(c)), "push tagged bar")
        ELSE Push(Push(AddBar(Push(ps1, MmlItem(Spacer("CLOSE")), "push CLOSE spacer"),
                              p),
                       MmlItem(StretchyBar(c)), "push stretchy bar"),
                  MmlItem(Spacer("OPEN")), "push OPEN spacer")

\* mutant: a '|' that follows a '|' is left in the input
BarNoMerge(ps, name, string) ==
    LET c0 == IF name = "|" THEN "|" ELSE DoubleBar
        p == Len(ps.stack)
        top == Top(ps.stack)
    IN  IF BarFallback(top)
        THEN Push(ps, MmlItem(PlainBar(c0)), "push plain bar")
        ELSE IF ~top.stretchy
        THEN Push(ps, MmlItem(TaggedBar(c0)), "push tagged bar")
        ELSE Push(Push(AddBar(Push(ps, MmlItem(Spacer("CLOSE")), "push CLOSE spacer"),
                              p),
                       MmlItem(StretchyBar(c0)), "push stretchy bar"),
                  MmlItem(Spacer("OPEN")), "push OPEN spacer")

\* BraketMethods.Bar
Bar(ps, name, string) ==
    LET c0 == IF name = "|" THEN "|" ELSE DoubleBar
        p == Len(ps.stack)
        top == Top(ps.stack)
        double == c0 = "|" /\ GetNext(string, ps.i) = "|"
        c == IF double THEN DoubleBar ELSE c0
        ps1 == IF double
               THEN ParserState(ps.stack, ps.i + 1, Append(ps.trace, "i + 1"), ps.error)
               ELSE ps
    IN  IF BarFallback(top)
        THEN Push(ps, MmlItem(PlainBar(c0)), "push plain bar")
        ELSE IF ~top.stretchy
        THEN Push(ps1, MmlItem(TaggedBar(c)), "push tagged bar")
        ELSE Push(Push(AddBar(Push(ps1, MmlItem(Spacer("CLOSE")), "push CLOSE spacer"),
                              p),
                       MmlItem(StretchyBar(c)), "push stretchy bar"),
                  MmlItem(Spacer("OPEN")), "push OPEN spacer")

(***************************************************************************)
(* The parser: one step per character or macro of the input.               *)
(***************************************************************************)
Macros == {"\\Set", "\\set"}

Bars == {"|", "\\|"}

Units == Macros \cup Bars \cup {"{", "}", "x"}

\* the inputs of the balanced-bar and of the unterminated-frame scenario
Scenarios ==
    {<<"\\Set", "{", "x", "|", "y", "|", "z", "}">>, <<"\\Set", "{", "x">>}

Inputs == SeqsUpTo(Units, MaxInput) \cup Scenarios

TexIdle ==
    /\ texString = <<>>
    /\ texBarmax = 0
    /\ texI = 0
    /\ texStack = <<StartItem>>
    /\ texStatus = "idle"
    /\ texError = [id |-> "", kind |-> ""]
    /\ texTrace = <<>>

InitTex ==
    /\ texString \in Inputs
    /\ texBarmax \in 0..MaxBarmax
    /\ texI = 0
    /\ texStack = <<StartItem>>
    /\ texStatus = "parsing"
    /\ texError = [id |-> "", kind |-> ""]
    /\ texTrace = <<>>

\* the unit the parser reads next
Current == texString[texI + 1]

Reading == texStatus = "parsing" /\ texI < Len(texString)

\* the handler has run: the parser goes on, or stops with the error raised
Handled(ps) ==
    /\ texStack' = ps.stack
    /\ texI' = ps.i
    /\ texTrace' = ps.trace
    /\ IF ps.error = ""
       THEN UNCHANGED <<texStatus, texError>>
       ELSE /\ texStatus' = "error"
            /\ texError' = [id |-> ps.error, kind |-> Top(ps.stack).kind]
    /\ UNCHANGED <<texString, texBarmax>>
    /\ UNCHANGED notTexVars

\* the parser state a handler is called with: the unit has been read
Called == ParserState(texStack, texI + 1, <<>>, "")

\* a macro of the braket package: '\Set' is stretchy, '\set' is not
ParseBraket ==
    /\ Reading
    /\ Current \in Macros
    /\ Handled(Braket(Called, Current, "{", "}", Current = "\\Set", texBarmax))

\* '|' or '\|'
ParseBar ==
    /\ Reading
    /\ Current \in Bars
    /\ Handled(Bar(Called, Current, texString))

\* '{'
ParseOpen ==
    /\ Reading
    /\ Current = "{"
    /\ Handled(Push(Called, OpenItem, "push open"))

\* '}'
ParseClose ==
    /\ Reading
    /\ Current = "}"
    /\ Handled(Push(Called, CloseItem, "push close"))

\* a letter
ParseLetter ==
    /\ Reading
    /\ Current \notin Macros \cup Bars \cup {"{", "}"}
    /\ Handled(Push(Called, MmlItem(Letter(Current)), "push letter"))

\* the end of the input: an item left open on the stack is an error
ParseEnd ==
    /\ texStatus = "parsing"
    /\ texI >= Len(texString)
    /\ IF Len(texStack) > 1
       THEN /\ texStatus' = "error"
            /\ texError' = [id |-> "UnterminatedFrame", kind |-> Top(texStack).kind]
       ELSE /\ texStatus' = "done"
            /\ texError' = texError
    /\ texTrace' = <<>>
    /\ UNCHANGED <<texString, texBarmax, texI, texStack>>
    /\ UNCHANGED notTexVars

NextTex ==
    \/ ParseBraket
    \/ ParseBar
    \/ ParseOpen
    \/ ParseClose
    \/ ParseLetter
    \/ ParseEnd

DocIdle ==
    /\ inputJax = <<>>
    /\ head = <<>>
    /\ sheetId = "null"
    /\ DocQuiet

(***************************************************************************)
(* The specifications.                                                     *)
(***************************************************************************)
InitSpecPos == InitPos /\ DocIdle /\ TexIdle

SpecPos == InitSpecPos /\ [][NextPos]_vars

InitSpecDoc == InitDoc /\ fpIdle /\ TexIdle

InitSpecTex == InitTex /\ fpIdle /\ DocIdle

SpecTex == InitSpecTex /\ [][NextTex]_vars

\* a style element of the page that the document did not put there
ForeignStyle(id) == [id |-> id, own |-> FALSE]

\* what jax.findMath reported in a pass that found k items at the start of
\* the string of container 1
FoundAtStart(k) ==
    [i \in 1..k |-> [n |-> 0, start |-> 0, end |-> 1, open |-> "$", close |-> "$"]]

\* the document after findMath has searched container 1 with one jax that
\* processes strings and found up to MaxMath items; the head may already
\* hold a style element with the id of the output jax's sheet
InitRender ==
    /\ inputJax = <<TRUE>>
    /\ \E k \in 0..MaxMath : math = StringList(FoundAtStart(k), DomNodes(1))
    /\ processed = [findMath |-> TRUE, updateDocument |-> FALSE, TestMath |-> FALSE]
    /\ head \in {<<>>, <<ForeignStyle("MJX-styles")>>, <<ForeignStyle("page")>>,
                 <<ForeignStyle("page"), ForeignStyle("MJX-styles")>>}
    /\ sheetId \in {"null", "", "MJX-styles"}
    /\ pass = "done"
    /\ elems = <<1>>
    /\ ci = 2
    /\ ji = 1
    /\ strings = 1
    /\ callLog = <<FindCall(1), JaxCall(1, 1, 1)>>
    /\ listSorted = TRUE
    /\ sinceRemove = [findMath |-> 0, update |-> 0, updated |-> 0]
    /\ fpIdle
    /\ TexIdle

\* rendering: findMath (which has searched already), updateDocument,
\* removeFromDocument and the progress of single math items
NextRender ==
    \/ FindMathCall
    \/ updateDocument
    \/ removeFromDocument
    \/ AdvanceState
    \/ TestMath

SpecRender == InitRender /\ [][NextRender]_vars

SpecDoc == InitSpecDoc /\ [][NextDoc]_vars

(***************************************************************************)
(* Properties of findMath (checked under SpecDoc).                         *)
(***************************************************************************)
FindMathStep == FindMathCall \/ FindMathJax \/ FindMathThrow \/ FindMathReturn

\* C4: once findMath has completed (processed.findMath is set), a further
\* findMath call leaves the math list as it is and calls neither
\* domStrings.find nor any jax's findMath.
C4_IdempotentDiscovery ==
    [][(processed.findMath /\ FindMathStep)
          => /\ math' = math
             /\ callLog' = callLog
             /\ pass' = "skipped"
             /\ processed' = processed]_vars

\* a second findMath call returned without searching, after a pass that
\* found two items in two containers
C4_Witness ==
    /\ pass = "skipped"
    /\ processed.findMath
    /\ Len(math) = 2
    /\ Len(elems) = 2
    /\ \E k \in 1..Len(callLog) : callLog[k].op = "find"

FindCalls(pos) ==
    {k \in 1..Len(callLog) : callLog[k].op = "find" /\ callLog[k].pos = pos}

\* the containers whose turn of the outer loop is over
Searched ==
    IF pass \in {"done", "skipped"} THEN 1..Len(elems) ELSE 1..(ci - 1)

SomeJaxProcessesStrings == \E j \in 1..Len(inputJax) : inputJax[j]

\* C7: in one findMath pass domStrings.find is called exactly once for a
\* container if some input jax has processStrings = true and never if none
\* has, and a jax is only ever passed the strings of the container being
\* searched.
C7_LazyExtraction ==
    /\ \A pos \in Searched :
          Cardinality(FindCalls(pos)) = IF SomeJaxProcessesStrings THEN 1 ELSE 0
    /\ \A pos \in 1..Len(elems) : Cardinality(FindCalls(pos)) <= 1
    /\ \A k \in 1..Len(callLog) :
          callLog[k].op = "findMath" =>
             IF inputJax[callLog[k].jax]
             THEN /\ callLog[k].from = callLog[k].pos
                  /\ \E m \in 1..(k - 1) : callLog[m] = FindCall(callLog[k].pos)
             ELSE callLog[k].from = 0

\* a completed pass over two containers with two jaxes that search strings:
\* two extractions, four searches
C7_Witness ==
    /\ pass = "done"
    /\ inputJax = <<TRUE, TRUE>>
    /\ Len(elems) = 2
    /\ Len(callLog) = 6
    /\ Cardinality(FindCalls(1)) = 1
    /\ Cardinality(FindCalls(2)) = 1

(***************************************************************************)
(* Properties of removeFromDocument (checked under SpecRender).            *)
(***************************************************************************)
RemoveChangesNothing == math' = math /\ processed' = processed

\* C5 as stated: a removeFromDocument call that follows another
\* removeFromDocument call with no findMath call in between changes nothing.
C5_AsStated ==
    [][(removeFromDocument /\ sinceRemove.findMath >= 1)
          => RemoveChangesNothing]_vars

\* C5 amended: a removeFromDocument call that follows another
\* removeFromDocument call with no updateDocument call in between changes
\* nothing.
C5_IdempotentRemoval ==
    [][(removeFromDocument /\ sinceRemove.update >= 1)
          => RemoveChangesNothing]_vars

\* two removals in a row, the second one meeting an item that was inserted
\* again after the first
C5_Witness ==
    /\ sinceRemove.update = 2
    /\ ~processed.updateDocument
    /\ \E i \in 1..Len(math) : math[i].st = STATE_INSERTED

(***************************************************************************)
(* The braket package: delimiter counting and the two scenarios.           *)
(***************************************************************************)
\* the item on top of the stack is an open braket frame
InBraket == Top(texStack).kind = "braket"

\* the braket frame on top of the stack takes the bar the parser reads now
Accepts == InBraket /\ Top(texStack).barcount < Top(texStack).barmax

\* the stack below its top item
Below(stack) == SubSeq(stack, 1, Len(stack) - 1)

\* the bar the parser reads now left every property of the frames alone and
\* added one ordinary token to the top item
OrdinaryToken ==
    /\ Below(texStack') = Below(texStack)
    /\ Len(texStack') = Len(texStack)
    /\ \E c \in {"|", DoubleBar} :
         Top(texStack') = [Top(texStack) EXCEPT !.nodes = @ \o <<PlainBar(c)>>]

\* C8 (as stated): in an open braket frame, stretchy or not, every bar the
\* frame accepts adds one to barcount, and every bar read once barcount has
\* reached barmax is an ordinary token that does not affect the frame.
C8_AsStated ==
    [][/\ (ParseBar /\ Accepts) =>
             /\ Top(texStack').kind = "braket"
             /\ Top(texStack').barcount = Top(texStack).barcount + 1
       /\ (ParseBar /\ InBraket /\ ~Accepts) => OrdinaryToken]_vars

\* a frame that is not stretchy has taken more bars than barmax allows and
\* still counts none
C8_Witness ==
    /\ InBraket
    /\ ~Top(texStack).stretchy
    /\ Top(texStack).barcount = 0
    /\ Top(texStack).barmax = 1
    /\ Len(Top(texStack).nodes) = 2
    /\ \A k \in 1..2 : Top(texStack).nodes[k].attrs.braketbar

\* the input of the balanced-bar scenario: open, x, bar, y, bar, z, close
BalancedBar == <<"\\Set", "{", "x", "|", "y", "|", "z", "}">>

\* the parser runs the balanced-bar scenario and has read k units
BalancedAt(k) == texString = BalancedBar /\ texBarmax = 1 /\ texI = k

\* what the frame holds once the first bar is read
FirstBarRead == <<Letter("x"), Spacer("CLOSE"), StretchyBar("|"), Spacer("OPEN")>>

\* the frame of the scenario is on top of the stack with this count and content
FrameHolds(count, nodes) ==
    /\ Len(texStack) = 2
    /\ InBraket
    /\ Top(texStack).barcount = count
    /\ Top(texStack).nodes = nodes

\* the parse of the scenario has left one fenced group with this content
FencedGroup(nodes) ==
    /\ Len(texStack) = 1
    /\ Len(texStack[1].nodes) = 1
    /\ texStack[1].nodes[1] = Fenced("{", BaseToMml(nodes), "}")
    /\ Content(texStack[1].nodes[1].kids[2]) = nodes

\* the first bar is the stretchy delimiter and the second a plain token
BarsOfScenario ==
    /\ BalancedAt(3) => FrameHolds(0, <<Letter("x")>>)
    /\ BalancedAt(4) => FrameHolds(1, FirstBarRead)
    /\ BalancedAt(5) => FrameHolds(1, FirstBarRead \o <<Letter("y")>>)
    /\ BalancedAt(6) => FrameHolds(1, FirstBarRead \o <<Letter("y"), PlainBar("|")>>)
    /\ BalancedAt(7) =>
         FrameHolds(1, FirstBarRead \o <<Letter("y"), PlainBar("|"), Letter("z")>>)
    /\ BalancedAt(8) => texStatus \in {"parsing", "done"}

\* C9 (as stated): the tokens open, x, bar, y, bar, z, close with barmax = 1 on
\* a stretchy frame make the first bar the stretchy delimiter (barcount 1), the
\* second bar a plain non-stretchy token (barcount stays 1), and close leaves
\* one fenced group whose content is x, stretchy bar, y, plain bar, z.
C9_AsStated ==
    /\ BarsOfScenario
    /\ BalancedAt(8) =>
         FencedGroup(<<Letter("x"), StretchyBar("|"), Letter("y"), PlainBar("|"),
                       Letter("z")>>)

\* C9 (amended): as above, but the content of the fenced group is x, closing
\* spacer, stretchy bar, opening spacer, y, plain bar, z.
C9_BalancedBar ==
    /\ BarsOfScenario
    /\ BalancedAt(8) =>
         FencedGroup(FirstBarRead \o <<Letter("y"), PlainBar("|"), Letter("z")>>)

\* the scenario has been parsed to its end
C9_Witness ==
    /\ BalancedAt(8)
    /\ texStatus = "done"
    /\ texStack[1].nodes[1].type = "mrow"

\* the input of the unterminated-frame scenario: open, x
Unterminated == <<"\\Set", "{", "x">>

\* the error of a parse that ended with a braket frame open
UnterminatedBraket == [id |-> "UnterminatedFrame", kind |-> "braket"]

\* some item of the stack is a braket frame
BraketOnStack == \E k \in 1..Len(texStack) : texStack[k].kind = "braket"

\* C10: a parse whose input ends while a braket frame is open (as open, x does)
\* ends in an UnterminatedFrame error that names the braket kind, and no parse
\* ends successfully with a braket frame on the stack.
C10_UnterminatedFrame ==
    /\ (texString = Unterminated /\ texStatus # "parsing") =>
         texStatus = "error" /\ texError = UnterminatedBraket
    /\ (texStatus \notin {"parsing", "idle"} /\ InBraket) =>
         texStatus = "error" /\ texError = UnterminatedBraket
    /\ texStatus = "done" => ~BraketOnStack

\* the unterminated-frame scenario has ended, the frame still holding x
C10_Witness ==
    /\ texString = Unterminated
    /\ texStatus = "error"
    /\ InBraket
    /\ Top(texStack).nodes = <<Letter("x")>>

(***************************************************************************)
(* The bar handler, path by path.                                          *)
(***************************************************************************)
\* the glyph BraketMethods.Bar starts from: '|' for the character, U+2225 for
\* the macro
BarGlyph == IF Current = "|" THEN "|" ELSE DoubleBar

\* the barcount of every item of the stack, bottom first
Barcounts(stack) == [k \in 1..Len(stack) |-> stack[k].barcount]

\* the bar the parser reads now takes the fallback path
FallsBack == ~InBraket \/ Top(texStack).barcount >= Top(texStack).barmax

\* C11: a bar handled while the top frame is not a braket frame, or is one
\* whose barcount has reached barmax, pushes exactly one ordinary non-stretchy
\* mo token (texClass ORD, no braketbar tag), raises no error, reads nothing
\* of the input beyond the bar itself and leaves every barcount as it was.
C11_FallbackNotError ==
    [][(ParseBar /\ FallsBack) =>
          /\ texTrace' = <<"push plain bar">>
          /\ Len(texStack') = Len(texStack)
          /\ Below(texStack') = Below(texStack)
          /\ Top(texStack') =
                [Top(texStack) EXCEPT !.nodes = @ \o <<PlainBar(BarGlyph)>>]
          /\ PlainBar(BarGlyph).type = "mo"
          /\ PlainBar(BarGlyph).attrs.texClass = "ORD"
          /\ ~PlainBar(BarGlyph).attrs.stretchy
          /\ ~PlainBar(BarGlyph).attrs.braketbar
          /\ texStatus' = "parsing"
          /\ texError' = texError
          /\ texI' = texI + 1
          /\ Barcounts(texStack') = Barcounts(texStack)]_vars

\* one bar has fallen back outside every braket frame, and another in a
\* braket frame that is full
C11_Witness ==
    /\ texTrace = <<"push plain bar">>
    /\ texStatus = "parsing"
    /\ Len(texStack) = 2
    /\ texStack[1].nodes = <<PlainBar(DoubleBar)>>
    /\ InBraket
    /\ Top(texStack).barmax = 1
    /\ Top(texStack).barcount = 1
    /\ Top(texStack).nodes[Len(Top(texStack).nodes)] = PlainBar("|")

\* the '|' the parser reads now is followed by another '|'
NextIsBar == Current = "|" /\ GetNext(texString, texI + 1) = "|"

\* the glyph of a bar the top frame accepts
AcceptedGlyph == IF NextIsBar THEN DoubleBar ELSE BarGlyph

\* what the handler does before it pushes an accepted bar
Merging == IF NextIsBar THEN <<"i + 1">> ELSE <<>>

\* C12: a bar accepted by a stretchy braket frame (barcount < barmax) makes
\* the handler push exactly three items in this order: a spacer of class
\* CLOSE, the stretchy bar tagged braketbar, a spacer of class OPEN; barcount
\* grows by exactly one, after the first spacer and before the bar.
C12_StretchyOrder ==
    [][(ParseBar /\ Accepts /\ Top(texStack).stretchy) =>
          /\ texTrace' = Merging \o <<"push CLOSE spacer", "barcount + 1",
                                      "push stretchy bar", "push OPEN spacer">>
          /\ Len(texStack') = Len(texStack)
          /\ Below(texStack') = Below(texStack)
          /\ Top(texStack') =
                [Top(texStack) EXCEPT
                    !.nodes = @ \o <<Spacer("CLOSE"), StretchyBar(AcceptedGlyph),
                                     Spacer("OPEN")>>,
                    !.barcount = @ + 1]
          /\ Spacer("CLOSE").type = "TeXAtom" /\ Spacer("CLOSE").attrs.texClass = "CLOSE"
          /\ Spacer("OPEN").type = "TeXAtom" /\ Spacer("OPEN").attrs.texClass = "OPEN"
          /\ StretchyBar(AcceptedGlyph).attrs.stretchy
          /\ StretchyBar(AcceptedGlyph).attrs.braketbar]_vars

\* a stretchy frame has just taken its second bar
C12_Witness ==
    /\ texTrace = <<"push CLOSE spacer", "barcount + 1", "push stretchy bar",
                    "push OPEN spacer">>
    /\ InBraket
    /\ Top(texStack).stretchy
    /\ Top(texStack).barcount = 2
    /\ Len(Top(texStack).nodes) = 6

\* C13: a bar reaching a non-stretchy braket frame with barcount < barmax
\* makes the handler push exactly one token, a non-stretchy mo carrying the
\* braketbar tag, and stop: no spacer is pushed and nothing else follows.
C13_NonStretchyBar ==
    [][(ParseBar /\ Accepts /\ ~Top(texStack).stretchy) =>
          /\ texTrace' = Merging \o <<"push tagged bar">>
          /\ Len(texStack') = Len(texStack)
          /\ Below(texStack') = Below(texStack)
          /\ Top(texStack') =
                [Top(texStack) EXCEPT !.nodes = @ \o <<TaggedBar(AcceptedGlyph)>>]
          /\ TaggedBar(AcceptedGlyph).type = "mo"
          /\ ~TaggedBar(AcceptedGlyph).attrs.stretchy
          /\ TaggedBar(AcceptedGlyph).attrs.braketbar
          /\ texStatus' = "parsing"
          /\ texError' = texError]_vars

\* a non-stretchy frame holds x and the bar it has just taken, and no spacer
C13_Witness ==
    /\ texTrace = <<"push tagged bar">>
    /\ InBraket
    /\ ~Top(texStack).stretchy
    /\ Top(texStack).nodes = <<Letter("x"), TaggedBar("|")>>

(***************************************************************************)
(* The braket frame: what it does with the items it receives.              *)
(***************************************************************************)
\* the item the parser is about to push: a finished subtree for a letter, a
\* close marker for '}', a new frame for '{' and for the braket macros
Incoming ==
    IF Current = "{" THEN OpenItem
    ELSE IF Current = "}" THEN CloseItem
    ELSE IF Current \in Macros
    THEN BraketItem("{", "}", Current = "\\Set", texBarmax)
    ELSE MmlItem(Letter(Current))

\* the frame on top took a finished subtree: it stays open and on top
Appended(node) ==
    /\ Len(texStack') = Len(texStack)
    /\ Below(texStack') = Below(texStack)
    /\ Top(texStack') = [Top(texStack) EXCEPT !.nodes = @ \o <<node>>]

\* the frame on top is gone and the frame below it took this one subtree
Delivered(node) ==
    /\ Len(texStack') = Len(texStack) - 1
    /\ Below(texStack') = Below(Below(texStack))
    /\ Top(texStack') = [Top(Below(texStack)) EXCEPT !.nodes = @ \o <<node>>]

\* C14: while a braket frame is on top, a finished subtree (mml item) is
\* appended to its children and the frame stays open and on top; a close item
\* pops the frame and delivers exactly one mml item, the synthesized subtree,
\* to the frame below; any other item goes to the base frame's checkItem.
C14_BraketTransitions ==
    [][/\ (ParseLetter /\ InBraket) => Appended(Letter(Current))
       /\ (ParseClose /\ InBraket) =>
             /\ BraketCheckItem(Top(texStack), CloseItem).act = "replace"
             /\ BraketCheckItem(Top(texStack), CloseItem).items =
                   <<MmlItem(toMml(Top(texStack)))>>
             /\ Delivered(toMml(Top(texStack)))
       /\ ((ParseOpen \/ ParseBraket) /\ InBraket) =>
             /\ BraketCheckItem(Top(texStack), Incoming) =
                   BaseCheckItem(Top(texStack), Incoming)
             /\ texStack' = Append(texStack, Incoming)]_vars

\* a braket frame has taken the subtree of the non-stretchy braket frame that
\* was closed on top of it, and is still open
C14_Witness ==
    /\ texTrace = <<"push close">>
    /\ Len(texStack) = 2
    /\ InBraket
    /\ Top(texStack).stretchy
    /\ Len(Top(texStack).nodes) = 1
    /\ Top(texStack).nodes[1].type = "mrow"
    /\ ~Top(texStack).nodes[1].kids[1].attrs.stretchy

\* the last child of the item on top of the stack
LastNode(stack) == Top(stack).nodes[Len(Top(stack).nodes)]

\* a delimiter token of a non-stretchy group
PlainFence(node, glyph) ==
    /\ node.type = "mo"
    /\ node.text = glyph
    /\ node.kids = <<>>
    /\ ~node.attrs.stretchy
    /\ node.attrs.fence

\* group is what the braket frame item synthesizes when it is closed
Synthesized(item, group) ==
    LET inner == BaseToMml(item.nodes)
    IN  IF item.stretchy
        THEN /\ group = Fenced(item.open, inner, item.close)
             /\ group.type = "mrow"
             /\ group.kids[2] = inner
             /\ group.kids[1].text = item.open
             /\ group.kids[3].text = item.close
        ELSE /\ group.type = "mrow"
             /\ Len(group.kids) = 3
             /\ PlainFence(group.kids[1], item.open)
             /\ group.kids[2] = inner
             /\ PlainFence(group.kids[3], item.close)

\* C15: on close a stretchy braket frame synthesizes a single fenced group
\* built from its open glyph, its accumulated inner content and its close
\* glyph; a non-stretchy braket frame synthesizes a group of exactly three
\* children in the order open token, inner content, close token, both
\* delimiter tokens having stretchy = false and fence = true.
C15_FrameSynthesis ==
    [][(ParseClose /\ InBraket) =>
          /\ Len(Top(texStack').nodes) = Len(Top(Below(texStack)).nodes) + 1
          /\ Synthesized(Top(texStack), LastNode(texStack'))]_vars

\* a non-stretchy frame holding x and a bar has been closed into a group
\* of three children
C15_Witness ==
    /\ texTrace = <<"push close">>
    /\ Len(texStack) = 1
    /\ Len(texStack[1].nodes) = 1
    /\ LastNode(texStack).type = "mrow"
    /\ Len(LastNode(texStack).kids) = 3
    /\ ~LastNode(texStack).kids[1].attrs.stretchy
    /\ LastNode(texStack).kids[2].type = "inferred-mrow"
    /\ LastNode(texStack).kids[2].kids = <<Letter("x"), TaggedBar("|")>>

(***************************************************************************)
(* Rolling the rendering back.                                             *)
(***************************************************************************)
\* the math items of the list without their render states, in list order
Matches(list) == [i \in 1..Len(list) |-> [start |-> list[i].start, end |-> list[i].end]]

\* C16: removeFromDocument lowers the render state only of the matches whose
\* state is at least INSERTED, setting each to TYPESET, and only when
\* processed.updateDocument is set; matches below INSERTED, the membership and
\* order of the list and processed.findMath stay as they are, and
\* processed.updateDocument is false afterwards.
C16_RollbackFrame ==
    [][removeFromDocument =>
          /\ Matches(math') = Matches(math)
          /\ \A i \in 1..Len(math) :
                math'[i].st =
                   IF processed.updateDocument /\ math[i].st >= STATE_INSERTED
                   THEN STATE_TYPESET
                   ELSE math[i].st
          /\ processed'.findMath = processed.findMath
          /\ ~processed'.updateDocument]_vars

\* the document was updated and then removed once: an item that had been
\* inserted is back at TYPESET next to an item that never was processed
C16_Witness ==
    /\ ~processed.updateDocument
    /\ sinceRemove.update = 1
    /\ \E k \in 1..Len(head) : head[k].own
    /\ \E i \in 1..Len(math) : math[i].st = STATE_TYPESET
    /\ \E i \in 1..Len(math) : math[i].st = STATE_UNPROCESSED

(***************************************************************************)
(* The count of a braket frame.                                            *)
(***************************************************************************)
\* the braket frames of the stack
BraketFrames(stack) == {k \in 1..Len(stack) : stack[k].kind = "braket"}

\* the item at place k is on the stack before and after the step
Stays(k) == k <= Len(texStack) /\ k <= Len(texStack')

\* every braket frame of the stack has its count within its bounds
InBounds ==
    \A k \in BraketFrames(texStack) :
       /\ texStack[k].barmax >= 0
       /\ 0 <= texStack[k].barcount
       /\ texStack[k].barcount <= texStack[k].barmax

\* C17: in every reachable parser state every braket frame (opened with
\* barmax >= 0) has 0 <= barcount <= barmax; barcount is 0 when the frame is
\* pushed and never decreases.
C17_BoundedCount ==
    /\ []InBounds
    /\ [][/\ ParseBraket => /\ Len(texStack') = Len(texStack) + 1
                            /\ Top(texStack').kind = "braket"
                            /\ Top(texStack').barcount = 0
          /\ \A k \in BraketFrames(texStack) :
                Stays(k) => /\ texStack'[k].kind = "braket"
                            /\ texStack'[k].barcount >= texStack[k].barcount]_vars

\* a stretchy frame is full: it has taken as many bars as barmax allows and
\* one more bar has fallen back
C17_Witness ==
    /\ InBraket
    /\ Top(texStack).barmax = 2
    /\ Top(texStack).barcount = 2
    /\ LastNode(texStack) = PlainBar("|")

\* some braket frame below the top of the stack could still take a bar
OpenBraketBelow ==
    \E k \in BraketFrames(Below(texStack)) : texStack[k].barcount < texStack[k].barmax

\* what the bar handler does when the item on top is the whole stack
BarOnTopAlone == Bar(ParserState(<<Top(texStack)>>, texI + 1, <<>>, ""), Current, texString)

\* C18: a bar handled while another frame (an open group, say) sits on top of
\* a braket frame takes the fallback path and leaves the count of that braket
\* frame as it was, even when it is below barmax; the bar handler neither
\* reads nor writes a frame below the top.
C18_OnlyTopCounts ==
    [][/\ (ParseBar /\ ~InBraket /\ OpenBraketBelow) =>
             /\ texTrace' = <<"push plain bar">>
             /\ Top(texStack') =
                   [Top(texStack) EXCEPT !.nodes = @ \o <<PlainBar(BarGlyph)>>]
             /\ Barcounts(texStack') = Barcounts(texStack)
       /\ ParseBar =>
             /\ Len(texStack') = Len(texStack)
             /\ Below(texStack') = Below(texStack)
             /\ Top(texStack') = Top(BarOnTopAlone.stack)
             /\ texI' = BarOnTopAlone.i
             /\ texTrace' = BarOnTopAlone.trace]_vars

\* a bar has fallen back in a group that sits on a braket frame with room left
C18_Witness ==
    /\ texTrace = <<"push plain bar">>
    /\ Len(texStack) = 3
    /\ texStack[2].kind = "braket"
    /\ texStack[2].barcount = 0
    /\ texStack[2].barmax >= 1
    /\ texStack[3].kind = "open"
    /\ texStack[3].nodes = <<PlainBar("|")>>

\* the nodes the top item has after the step and had not before it
NewNodes ==
    SubSeq(Top(texStack').nodes, Len(Top(texStack).nodes) + 1, Len(Top(texStack').nodes))

\* the delimiters of a frame among the nodes
Delimiters(nodes) == {k \in 1..Len(nodes) : nodes[k].attrs.braketbar}

\* C19: when a '|' reaches a braket frame with barcount < barmax and the next
\* character of the input is '|' too, the handler consumes that character
\* (the cursor moves one further) and emits one double bar (U+2225) delimiter
\* that counts at most once; on the fallback path the second '|' stays in the
\* input.
C19_DoubleBar ==
    [][/\ (ParseBar /\ Accepts /\ NextIsBar) =>
             /\ texI' = texI + 2
             /\ texTrace'[1] = "i + 1"
             /\ Len(texStack') = Len(texStack)
             /\ Cardinality(Delimiters(NewNodes)) = 1
             /\ \A k \in Delimiters(NewNodes) :
                   NewNodes[k].type = "mo" /\ NewNodes[k].text = DoubleBar
             /\ Top(texStack').barcount \in
                   {Top(texStack).barcount, Top(texStack).barcount + 1}
       /\ (ParseBar /\ FallsBack /\ NextIsBar) =>
             /\ texI' = texI + 1
             /\ GetNext(texString', texI') = "|"
             /\ NewNodes = <<PlainBar("|")>>]_vars

\* a stretchy frame has taken two '|' as one double bar that counts once
C19_Witness ==
    /\ texString = <<"\\Set", "{", "|", "|">>
    /\ texI = 4
    /\ InBraket
    /\ Top(texStack).barcount = 1
    /\ Top(texStack).nodes = <<Spacer("CLOSE"), StretchyBar(DoubleBar), Spacer("OPEN")>>

(***************************************************************************)
(* The discovery flag (checked under SpecDoc).                             *)
(***************************************************************************)
\* jax j has been asked for the math of the container at place pos
PairSearched(pos, j) ==
    \E k \in 1..Len(callLog) :
       callLog[k].op = "findMath" /\ callLog[k].pos = pos /\ callLog[k].jax = j

\* how often the item occurs in the list
Count(list, item) == Cardinality({i \in 1..Len(list) : list[i] = item})

\* the flag is set only when every (container, input jax) pair was searched
FlagComplete ==
    processed.findMath =>
       /\ pass \in {"done", "skipped"}
       /\ \A pos \in 1..Len(elems) : \A j \in 1..Len(inputJax) : PairSearched(pos, j)

\* merging a match that is in the list already adds it once more
MergedAgain ==
    \A i \in 1..Len(math) :
       /\ Len(merge(math, <<math[i]>>)) = Len(math) + 1
       /\ Count(merge(math, <<math[i]>>), math[i]) = Count(math, math[i]) + 1

\* C20: processed.findMath is true only if every (container, input jax) pair
\* has been searched and its list merged; if a search aborts part-way the flag
\* stays false and the lists merged so far stay in the math list, so that a
\* later findMath call searches again from the first container and merges
\* those matches a second time.
C20_FlagCompleteness ==
    /\ [](FlagComplete /\ MergedAgain)
    /\ [][/\ FindMathJax =>
                /\ callLog'[Len(callLog')].op = "findMath"
                /\ callLog'[Len(callLog')].pos = ci
                /\ callLog'[Len(callLog')].jax = ji
                /\ \A i \in 1..Len(math) : Count(math', math[i]) >= Count(math, math[i])
          /\ FindMathThrow =>
                /\ ~processed'.findMath
                /\ math' = math
          /\ (FindMathCall /\ pass = "threw") =>
                /\ pass' = "running"
                /\ ci' = 1 /\ ji' = 1
                /\ callLog' = <<>>
                /\ math' = math
                /\ ~processed'.findMath]_vars

\* the search that follows an aborted one has come back to the first jax of
\* the first container and has merged the match found before a second time
C20_Witness ==
    /\ pass = "running"
    /\ ~processed.findMath
    /\ inputJax = <<FALSE, FALSE>>
    /\ ci = 1 /\ ji = 2
    /\ Len(callLog) = 1
    /\ Len(math) = 2
    /\ math[1] = math[2]

(***************************************************************************)
(* The style sheet in the document head (checked under SpecRender).        *)
(***************************************************************************)
\* the style elements of the head that carry the id
StylesWithId(hd, id) == {k \in 1..Len(hd) : hd[k].id = id}

\* the output jax has a style sheet, and it has a non-empty id
SheetHasId == sheetId \notin {"null", ""}

\* C21: after any sequence of updateDocument and removeFromDocument calls the
\* head holds at most one style element with the id of the output jax's
\* sheet (when that id is not empty): updateDocument replaces a style of that
\* id where there is one and appends the sheet only where there is none, and
\* a second updateDocument with no removeFromDocument in between changes
\* nothing at all.
C21_NoDuplicateSheet ==
    /\ [](SheetHasId => Cardinality(StylesWithId(head, sheetId)) <= 1)
    /\ [][/\ (updateDocument /\ SheetHasId /\ sinceRemove.updated = 0) =>
                /\ StylesWithId(head', sheetId) # {}
                /\ \A k \in StylesWithId(head', sheetId) : head'[k] = StyleSheet(sheetId)
                /\ IF StylesWithId(head, sheetId) # {}
                   THEN /\ Len(head') = Len(head)
                        /\ StylesWithId(head', sheetId) = StylesWithId(head, sheetId)
                        /\ \A k \in 1..Len(head) :
                              k \notin StylesWithId(head, sheetId) => head'[k] = head[k]
                   ELSE head' = Append(head, StyleSheet(sheetId))
          /\ (updateDocument /\ sinceRemove.updated >= 1) =>
                /\ head' = head
                /\ math' = math
                /\ processed' = processed
          /\ removeFromDocument => head' = head]_vars

\* the document was updated twice in a row, after a removal: the head holds
\* the style of the page and, once, the sheet that took the place of the
\* style with its id
C21_Witness ==
    /\ sinceRemove.updated = 2
    /\ sinceRemove.findMath >= 1
    /\ processed.updateDocument
    /\ head = <<ForeignStyle("page"), StyleSheet("MJX-styles")>>
====
